---------------------------- MODULE Spec2Model ----------------------------
(***************************************************************************)
(* The weekly pick'em settlement engine: the week document written by      *)
(* getNFLOdds and merged by syncNflDataAndSettle, the per-user predictions *)
(* documents written by handleSubmitPicks and settled by the sync pass,    *)
(* the profile ledger and the leaderboard document.                        *)
(*                                                                         *)
(* Money is counted in hundredths of a Winner Buck, so that                *)
(* tier * payoutMultiplier[tier] is an integer (25*0.10 = 2.50 -> 250).    *)
(***************************************************************************)
EXTENDS Integers, Sequences, FiniteSets, TLC

(***************************************************************************)
(* Bounds of the model and constants of the program.                       *)
(***************************************************************************)
\* handleSubmitPicks calls made per user
MaxSubmissions == 1

\* maxEntriesPerWeek
MaxEntriesPerWeek == 3

\* initialData.predictorPoints and initialData.winnerBucks (in hundredths)
InitialPredictorPoints == 5000
InitialWinnerBucks == 100

\* JavaScript null for the numeric fields (scores, actualTieBreakerTotalPoints)
NullNum == -1

\* the external game ids the provider knows, in commence_time order
GameIds == {"g1", "g2"}
NoGame == "none"
CommenceTime(g) == IF g = "g1" THEN 1 ELSE 2

Users == {"u1"}
Passes == {1, 2}

\* bettingTiers, restricted to the stakes the users of the model choose
BettingTiers == {50}
\* the two sides of a game, and the side the users of the model pick
Teams == {"H", "A"}
UserChoices == {"H"}
TieBreakerGuesses == {1}

\* instants of the client's clock; the week's betting window in those instants
Instants == {0, 1, 2, 3}
BettingWindowStart == 1
BettingWindowEnd == 2

\* payoutMultiplier with one rate for every tier
PayoutMultiplierFlat(tier) == 10

\* payoutMultiplier, in percent
PayoutMultiplier(tier) == CASE tier = 25 -> 10 [] tier = 50 -> 12 [] OTHER -> 15

VARIABLES
    week,          \* artifacts/{appId}/nflWeeks/{weekId}
    preds,         \* users/{u}/predictions/{weekId}, per user
    profile,       \* users/{u}/profile/data, per user
    leaderboard,   \* leaderboards/{weekId}
    pc,            \* position of each stepwise sync pass
    loc,           \* the locals of each stepwise sync pass
    lastOp,        \* the handler that made the last step
    sortIn,        \* leaderboardEntries before leaderboardEntries.sort
    sortTotal,     \* updatedWeekData.actualTieBreakerTotalPoints of that build
    sortOut,       \* leaderboardEntries after the sort
    clock,         \* the instant of the store's request.time
    cache,         \* per browser session: userData, userWeeklyEntriesCount
    refs,          \* the reference instants (new Date()) of two calls of the week clock
    infos,         \* what getCurrentNFLWeekInfo returned for each of them
    feed,          \* what the provider answers, where one answer is held fixed
    request,       \* a request of a browser to the store, judged by the rules
    decision       \* what the rules decided on it

vars == <<week, preds, profile, leaderboard, pc, loc, lastOp,
          sortIn, sortTotal, sortOut, clock, cache, refs, infos, feed,
          request, decision>>

\* the variables used only by the leaderboard sort and by the browser sessions
sortVars == <<sortIn, sortTotal, sortOut>>
clientVars == <<clock, cache>>
\* the variables used only by the week clock
clockVars == <<refs, infos>>

NoWeek == [exists |-> FALSE]
NoPred == [exists |-> FALSE]
NoBoard == [exists |-> FALSE]
NoUpdate == [none |-> TRUE]


(***************************************************************************)
(* The provider.  An odds response is a list of events with distinct ids;  *)
(* a scores response gives, per game id, no record, or a record with a     *)
(* completed flag and a scores array (null before kick-off).               *)
(***************************************************************************)
OddsResponses == {<<"g1">>, <<"g1", "g2">>}

\* the <<home, away>> scores the provider reports for a completed game: a tie
\* (also what the || 0 default gives when no team name matches), a home win
\* and an away win
FinalScores == {<<0, 0>>, <<1, 0>>, <<0, 1>>}

AbsentFrag == [present |-> FALSE, completed |-> FALSE, scores |-> FALSE,
               home |-> NullNum, away |-> NullNum]

ScoreFrags ==
    {AbsentFrag}
    \cup {[present |-> TRUE, completed |-> FALSE, scores |-> FALSE,
           home |-> NullNum, away |-> NullNum]}
    \cup {[present |-> TRUE, completed |-> FALSE, scores |-> TRUE, home |-> 0, away |-> 0]}
    \cup {[present |-> TRUE, completed |-> TRUE, scores |-> TRUE,
           home |-> q[1], away |-> q[2]] : q \in FinalScores}

ScoresResponses == [GameIds -> ScoreFrags]

SeqIds(games) == {games[i].id : i \in 1..Len(games)}

\* new Date(a.commenceTime) - new Date(b.commenceTime): the last game of the
\* sorted list is the one that commences last; null for an empty list
LastByCommenceTime(ids) ==
    IF ids = {} THEN NoGame
    ELSE CHOOSE g \in ids : \A h \in ids : CommenceTime(h) <= CommenceTime(g)

\* oddsResponse.data.map(event => ({id, ..., score: {home: null, away: null}, completed: false}))
NewGame(id) == [id |-> id, completed |-> FALSE, home |-> NullNum, away |-> NullNum]

GamesFromOdds(odds) == [i \in 1..Len(odds) |-> NewGame(odds[i])]

\* stored.actualTieBreakerTotalPoints || null
ReadTieBreakerTotal(stored) == IF stored = 0 THEN NullNum ELSE stored

\* MergeGame that marks a game completed without storing its score
MergeGameFlagOnly(game, f) ==
    IF f.present /\ f.completed
    THEN [game EXCEPT !.completed = TRUE]
    ELSE IF f.present /\ f.scores
    THEN [game EXCEPT !.home = f.home, !.away = f.away, !.completed = FALSE]
    ELSE game

\* one iteration of currentWeekGames.map(game => ...): the score branch
MergeGame(game, f) ==
    IF f.present /\ f.completed
    THEN [game EXCEPT !.home = f.home, !.away = f.away, !.completed = TRUE]
    ELSE IF f.present /\ f.scores
    THEN [game EXCEPT !.home = f.home, !.away = f.away, !.completed = FALSE]
    ELSE game

\* the assignment to actualTieBreakerTotalPoints inside the map, game by game
RECURSIVE MergeTotal(_, _, _, _, _)
MergeTotal(games, scores, tbId, atp, i) ==
    IF i > Len(games) THEN atp
    ELSE LET f == scores[games[i].id]
             hit == f.present /\ f.completed /\ games[i].id = tbId /\ atp = NullNum
         IN MergeTotal(games, scores, tbId, IF hit THEN f.home + f.away ELSE atp, i + 1)

\* AppendNew putting a new game in front of the list
RECURSIVE AppendNewInFront(_, _, _)
AppendNewInFront(games, odds, i) ==
    IF i > Len(odds) THEN games
    ELSE AppendNewInFront(IF odds[i] \in SeqIds(games) THEN games
                          ELSE <<NewGame(odds[i])>> \o games, odds, i + 1)

\* apiOddsData.forEach(apiGame => { if (!updatedWeekGames.some(...)) push })
RECURSIVE AppendNew(_, _, _)
AppendNew(games, odds, i) ==
    IF i > Len(odds) THEN games
    ELSE AppendNew(IF odds[i] \in SeqIds(games) THEN games
                   ELSE Append(games, NewGame(odds[i])), odds, i + 1)

MergeGames(games, odds, scores) ==
    AppendNew([i \in 1..Len(games) |-> MergeGame(games[i], scores[games[i].id])], odds, 1)

(***************************************************************************)
(* Settlement of one predictions document against a list of games.         *)
(***************************************************************************)
HasGame(games, g) == \E i \in 1..Len(games) : games[i].id = g
GameById(games, g) == games[CHOOSE i \in 1..Len(games) : games[i].id = g]

\* gameFromFirestore && gameFromFirestore.completed
GameDone(games, g) == HasGame(games, g) /\ GameById(games, g).completed

\* "H", "A", or NoGame for no winner
Winner(game) ==
    IF game.home > game.away THEN "H"
    ELSE IF game.away > game.home THEN "A"
    ELSE NoGame

PickOutcome(pk, game) ==
    LET w == Winner(game) IN
    IF w # NoGame /\ pk.pick = w THEN "win"
    ELSE IF w # NoGame THEN "loss"
    ELSE "pending"

\* SettlePick without the test for a pending outcome
SettlePickAlways(pk, game) ==
    LET o == PickOutcome(pk, game) IN
    [pk EXCEPT !.outcome = o,
               !.winnings = IF o = "win" THEN pk.tier * PayoutMultiplier(pk.tier) ELSE 0]

\* the body of the loop over updatedPicks for a completed game
SettlePick(pk, game) ==
    IF pk.outcome = "pending"
    THEN LET o == PickOutcome(pk, game) IN
         [pk EXCEPT !.outcome = o,
                    !.winnings = IF o = "win" THEN pk.tier * PayoutMultiplier(pk.tier) ELSE 0]
    ELSE pk

RECURSIVE SumWinnings(_, _)
SumWinnings(picks, S) ==
    IF S = {} THEN 0
    ELSE LET g == CHOOSE x \in S : TRUE IN picks[g].winnings + SumWinnings(picks, S \ {g})

\* SettleSubmission without the branch that re-sums a pick already won
SettleSubmissionNewWinsOnly(pred, games) ==
    LET picks2 == [g \in DOMAIN pred.picks |->
                      IF GameDone(games, g) THEN SettlePick(pred.picks[g], GameById(games, g))
                      ELSE pred.picks[g]]
        won == {g \in DOMAIN pred.picks :
                   /\ GameDone(games, g)
                   /\ pred.picks[g].outcome = "pending"
                   /\ picks2[g].outcome = "win"}
    IN [picks |-> picks2,
        totalCorrectPicks |-> Cardinality(won),
        totalWinnerBucksWon |-> SumWinnings(picks2, won),
        isSettled |-> \A g \in DOMAIN pred.picks : GameDone(games, g)]

\* SettleSubmission that lets a pick whose game is not in the list pass as done
SettleSubmissionIgnoringMissing(pred, games) ==
    LET picks2 == [g \in DOMAIN pred.picks |->
                      IF GameDone(games, g) THEN SettlePick(pred.picks[g], GameById(games, g))
                      ELSE pred.picks[g]]
        won == {g \in DOMAIN pred.picks : GameDone(games, g) /\ picks2[g].outcome = "win"}
    IN [picks |-> picks2,
        totalCorrectPicks |-> Cardinality(won),
        totalWinnerBucksWon |-> SumWinnings(picks2, won),
        isSettled |-> \A g \in DOMAIN pred.picks : HasGame(games, g) => GameDone(games, g)]

\* predictionUpdates for one unsettled predictions document
SettleSubmission(pred, games) ==
    LET picks2 == [g \in DOMAIN pred.picks |->
                      IF GameDone(games, g) THEN SettlePick(pred.picks[g], GameById(games, g))
                      ELSE pred.picks[g]]
        won == {g \in DOMAIN pred.picks : GameDone(games, g) /\ picks2[g].outcome = "win"}
    IN [picks |-> picks2,
        totalCorrectPicks |-> Cardinality(won),
        totalWinnerBucksWon |-> SumWinnings(picks2, won),
        isSettled |-> \A g \in DOMAIN pred.picks : GameDone(games, g)]

\* NeedsSettlement without the isSettled test
NeedsSettlementAlways(pred) == pred.exists

\* userPredictionsSnap.exists && !userPredictionsSnap.data().isSettled
NeedsSettlement(pred) == pred.exists /\ ~pred.isSettled

\* netWinnings, or 0 when no increment is queued
NetWinnings(pred, upd) ==
    IF upd.isSettled /\ upd.totalWinnerBucksWon > pred.totalWinnerBucksWon
    THEN upd.totalWinnerBucksWon - pred.totalWinnerBucksWon
    ELSE 0

\* batch.update(userPredictionsRef, predictionUpdates)
ApplyPredictionUpdate(pred, upd) ==
    [pred EXCEPT !.picks = upd.picks,
                 !.totalCorrectPicks = upd.totalCorrectPicks,
                 !.totalWinnerBucksWon = upd.totalWinnerBucksWon,
                 !.isSettled = upd.isSettled]

(***************************************************************************)
(* The leaderboard phase.                                                  *)
(***************************************************************************)
UserOrder == <<"u1">>

\* userDoc.data().predictions?.[weekInfo.weekId]: a field of the users/{u}
\* document itself; the predictions documents live in a subcollection and
\* nothing writes such a field
UserDocPredictions(u) == NoPred

Abs(x) == IF x < 0 THEN -x ELSE x

\* CompareEntries without the distance to the actual total
CompareEntriesNoGuess(a, b, actualTotal) ==
    IF b.totalCorrectPicks # a.totalCorrectPicks
    THEN b.totalCorrectPicks - a.totalCorrectPicks
    ELSE b.totalWinnerBucksWon - a.totalWinnerBucksWon

\* the comparator of leaderboardEntries.sort: negative when a goes first
CompareEntries(a, b, actualTotal) ==
    IF b.totalCorrectPicks # a.totalCorrectPicks
    THEN b.totalCorrectPicks - a.totalCorrectPicks
    ELSE IF b.totalWinnerBucksWon # a.totalWinnerBucksWon
    THEN b.totalWinnerBucksWon - a.totalWinnerBucksWon
    ELSE Abs(a.tieBreakerPoints - actualTotal) - Abs(b.tieBreakerPoints - actualTotal)

\* InsertEntry moving e before the entries it compares equal to
RECURSIVE InsertEntryBeforeEqual(_, _, _)
InsertEntryBeforeEqual(sorted, e, actualTotal) ==
    IF sorted = <<>> THEN <<e>>
    ELSE LET last == sorted[Len(sorted)] IN
         IF CompareEntries(e, last, actualTotal) <= 0
         THEN Append(InsertEntryBeforeEqual(SubSeq(sorted, 1, Len(sorted) - 1), e, actualTotal),
                     last)
         ELSE Append(sorted, e)

\* Array.prototype.sort is stable: e goes after every entry it does not precede
RECURSIVE InsertEntry(_, _, _)
InsertEntry(sorted, e, actualTotal) ==
    IF sorted = <<>> THEN <<e>>
    ELSE LET last == sorted[Len(sorted)] IN
         IF CompareEntries(e, last, actualTotal) < 0
         THEN Append(InsertEntry(SubSeq(sorted, 1, Len(sorted) - 1), e, actualTotal), last)
         ELSE Append(sorted, e)

RECURSIVE SortEntries(_, _, _)
SortEntries(entries, actualTotal, n) ==
    IF n = 0 THEN <<>>
    ELSE InsertEntry(SortEntries(entries, actualTotal, n - 1), entries[n], actualTotal)

RECURSIVE CollectEntries(_)
CollectEntries(i) ==
    IF i = 0 THEN <<>>
    ELSE LET u == UserOrder[i]
             d == UserDocPredictions(u)
         IN IF d.exists /\ d.isSettled
            THEN Append(CollectEntries(i - 1),
                        [id |-> u, totalCorrectPicks |-> d.totalCorrectPicks,
                         totalWinnerBucksWon |-> d.totalWinnerBucksWon,
                         tieBreakerPoints |-> d.tieBreakerPoints])
            ELSE CollectEntries(i - 1)

BuildLeaderboard(actualTotal) ==
    LET es == CollectEntries(Len(UserOrder)) IN SortEntries(es, actualTotal, Len(es))

(***************************************************************************)
(* syncNflDataAndSettle as functions of what it has read: the locals it    *)
(* builds and the documents it writes, one per stretch between store       *)
(* accesses.                                                               *)
(***************************************************************************)
IdleLocals == [games |-> <<>>, atp |-> NullNum,
               predBatch |-> [u \in Users |-> NoUpdate],
               profBatch |-> [u \in Users |-> 0]]

\* read the week document, fetch odds and scores, merge
MergedLocals(w, odds, scores) ==
    [IdleLocals EXCEPT
        !.games = MergeGames(w.games, odds, scores),
        !.atp = MergeTotal(w.games, scores, w.tieBreakerGameId,
                           ReadTieBreakerTotal(w.actualTieBreakerTotalPoints), 1)]

\* weekDocRef.update({...weekInfo, games, actualTieBreakerTotalPoints}),
\* where weekInfo.tieBreakerGameId is null
WeekAfterUpdate(w, l) ==
    [w EXCEPT !.games = l.games,
              !.actualTieBreakerTotalPoints = l.atp,
              !.tieBreakerGameId = NoGame]

\* the loop over usersSnapshot.docs: read each predictions document and queue
\* its update and the profile increment
QueueSettlement(l, prds) ==
    [l EXCEPT
        !.predBatch = [u \in Users |->
            IF NeedsSettlement(prds[u])
            THEN SettleSubmission(prds[u], l.games) ELSE NoUpdate],
        !.profBatch = [u \in Users |->
            IF NeedsSettlement(prds[u])
            THEN NetWinnings(prds[u], SettleSubmission(prds[u], l.games)) ELSE 0]]

\* userPredictionUpdatesBatch.commit()
PredsAfterCommit(prds, l) ==
    [u \in Users |->
        IF l.predBatch[u] = NoUpdate THEN prds[u]
        ELSE ApplyPredictionUpdate(prds[u], l.predBatch[u])]

\* userProfileUpdatesBatch.commit(): FieldValue.increment(netWinnings)
ProfilesAfterCommit(prof, l) ==
    [u \in Users |-> [prof[u] EXCEPT !.winnerBucks = @ + l.profBatch[u]]]

\* BoardAfterPhase without the test on the stored week
BoardAfterPhaseAlways(board, w, l) ==
    [exists |-> TRUE,
     entries |-> BuildLeaderboard(w.actualTieBreakerTotalPoints),
     actualTieBreakerTotalPoints |-> l.atp]

\* re-read the week document; build and set() the leaderboard when every game
\* is completed and the stored total is not null
BoardAfterPhase(board, w, l) ==
    IF (\A i \in 1..Len(w.games) : w.games[i].completed)
       /\ w.actualTieBreakerTotalPoints # NullNum
    THEN [exists |-> TRUE,
          entries |-> BuildLeaderboard(w.actualTieBreakerTotalPoints),
          actualTieBreakerTotalPoints |-> l.atp]
    ELSE board

\* no leaderboard sort under way, no browser session open
NoSort == sortIn = <<>> /\ sortTotal = NullNum /\ sortOut = <<>>
NoSessions == clock = 0 /\ cache = <<>>
\* no week clock call under study, no provider answer held fixed
NoRefs == refs = <<>> /\ infos = <<>>
NoFeed == feed = <<>>
\* the variables used only by the access rules; no request judged
rulesVars == <<request, decision>>
NoRequest == request = <<>> /\ decision = <<>>

(***************************************************************************)
(* Initial state: an empty store, fresh profiles, no pass running.         *)
(***************************************************************************)
Init ==
    /\ week = NoWeek
    /\ preds = [u \in Users |-> NoPred]
    /\ profile = [u \in Users |-> [predictorPoints |-> InitialPredictorPoints,
                                   winnerBucks |-> InitialWinnerBucks,
                                   weeklyEntries |-> 0]]
    /\ leaderboard = NoBoard
    /\ NoRequest
    /\ pc = [p \in Passes |-> "idle"]
    /\ loc = [p \in Passes |-> IdleLocals]
    /\ lastOp = "none"
    /\ NoSort
    /\ NoSessions
    /\ NoRefs
    /\ NoFeed

(***************************************************************************)
(* The handlers, each run to completion.                                   *)
(***************************************************************************)
\* getNFLOdds: fetch the odds, rebuild the game list, set() the week document
GetNFLOdds ==
    /\ \E odds \in OddsResponses :
          LET games == GamesFromOdds(odds) IN
          week' = [exists |-> TRUE, games |-> games,
                   tieBreakerGameId |-> LastByCommenceTime(SeqIds(games)),
                   actualTieBreakerTotalPoints |-> NullNum]
    /\ lastOp' = "getNFLOdds"
    /\ UNCHANGED <<preds, profile, leaderboard, pc, loc, sortVars, clientVars, clockVars, feed, rulesVars>>

\* bettingOpen: now >= bettingWindowStart && now <= bettingWindowEnd
BettingOpen(now) == now >= BettingWindowStart /\ now <= BettingWindowEnd

\* handleSubmitPicks
SubmitPicks(u) ==
    /\ week.exists
    /\ \E now \in Instants : BettingOpen(now)
    /\ profile[u].weeklyEntries < MaxEntriesPerWeek
    /\ week.tieBreakerGameId \in SeqIds(week.games)
    /\ \E tier \in BettingTiers, guess \in TieBreakerGuesses,
          choice \in [SeqIds(week.games) -> UserChoices] :
          /\ profile[u].predictorPoints >= tier
          /\ profile' = [profile EXCEPT
                           ![u].predictorPoints = @ - tier,
                           ![u].weeklyEntries = @ + 1]
          /\ preds' = [preds EXCEPT ![u] =
                         [exists |-> TRUE,
                          picks |-> [g \in SeqIds(week.games) |->
                                       [pick |-> choice[g], tier |-> tier,
                                        outcome |-> "pending", winnings |-> 0]],
                          tieBreakerPoints |-> guess,
                          tier |-> tier,
                          isSettled |-> FALSE,
                          totalCorrectPicks |-> 0,
                          totalWinnerBucksWon |-> 0]]
    /\ lastOp' = "submit"
    /\ UNCHANGED <<week, leaderboard, pc, loc, sortVars, clientVars, clockVars, feed, rulesVars>>

\* the store writes of one whole pass that received odds and scores
SyncPass(odds, scores) ==
    LET l1 == MergedLocals(week, odds, scores)
        w1 == WeekAfterUpdate(week, l1)
        l2 == QueueSettlement(l1, preds)
    IN /\ week' = w1
       /\ preds' = PredsAfterCommit(preds, l2)
       /\ profile' = ProfilesAfterCommit(profile, l2)
       /\ leaderboard' = BoardAfterPhase(leaderboard, w1, l2)

\* syncNflDataAndSettle, one whole pass
SyncNflDataAndSettle ==
    /\ week.exists
    /\ \E odds \in OddsResponses, scores \in ScoresResponses : SyncPass(odds, scores)
    /\ lastOp' = "sync"
    /\ UNCHANGED <<pc, loc, sortVars, clientVars, clockVars, feed, rulesVars>>

\* handlers run one at a time, passes included
Next ==
    \/ GetNFLOdds
    \/ \E u \in Users : profile[u].weeklyEntries < MaxSubmissions /\ SubmitPicks(u)
    \/ SyncNflDataAndSettle

Spec == Init /\ [][Next]_vars

(***************************************************************************)
(* Two invocations of syncNflDataAndSettle that overlap: each runs once,   *)
(* step by step, and the steps of the two interleave in any order.  The    *)
(* store starts as getNFLOdds and one handleSubmitPicks leave it.          *)
(***************************************************************************)
InitOverlap ==
    /\ week = [exists |-> TRUE, games |-> GamesFromOdds(<<"g1", "g2">>),
               tieBreakerGameId |-> "g2", actualTieBreakerTotalPoints |-> NullNum]
    /\ preds = [u \in Users |->
                  [exists |-> TRUE,
                   picks |-> [g \in GameIds |-> [pick |-> "H", tier |-> 50,
                                                 outcome |-> "pending", winnings |-> 0]],
                   tieBreakerPoints |-> 1, tier |-> 50, isSettled |-> FALSE,
                   totalCorrectPicks |-> 0, totalWinnerBucksWon |-> 0]]
    /\ profile = [u \in Users |-> [predictorPoints |-> InitialPredictorPoints - 50,
                                   winnerBucks |-> InitialWinnerBucks,
                                   weeklyEntries |-> 1]]
    /\ leaderboard = NoBoard
    /\ NoRequest
    /\ pc = [p \in Passes |-> "idle"]
    /\ loc = [p \in Passes |-> IdleLocals]
    /\ lastOp = "submit"
    /\ NoSort
    /\ NoSessions
    /\ NoRefs
    /\ NoFeed

\* weekDocRef.get(), then both axios.get, then the merge into the locals
SyncReadAndMerge(p) ==
    /\ pc[p] = "idle"
    /\ week.exists
    /\ \E odds \in OddsResponses, scores \in ScoresResponses :
          loc' = [loc EXCEPT ![p] = MergedLocals(week, odds, scores)]
    /\ pc' = [pc EXCEPT ![p] = "merged"]
    /\ lastOp' = "sync"
    /\ UNCHANGED <<week, preds, profile, leaderboard, sortVars, clientVars, clockVars, feed, rulesVars>>

SyncWriteWeek(p) ==
    /\ pc[p] = "merged"
    /\ week' = WeekAfterUpdate(week, loc[p])
    /\ pc' = [pc EXCEPT ![p] = "weekWritten"]
    /\ lastOp' = "sync"
    /\ UNCHANGED <<preds, profile, leaderboard, loc, sortVars, clientVars, clockVars, feed, rulesVars>>

SyncSettle(p) ==
    /\ pc[p] = "weekWritten"
    /\ loc' = [loc EXCEPT ![p] = QueueSettlement(loc[p], preds)]
    /\ pc' = [pc EXCEPT ![p] = "settled"]
    /\ lastOp' = "sync"
    /\ UNCHANGED <<week, preds, profile, leaderboard, sortVars, clientVars, clockVars, feed, rulesVars>>

SyncCommitPredictions(p) ==
    /\ pc[p] = "settled"
    /\ preds' = PredsAfterCommit(preds, loc[p])
    /\ pc' = [pc EXCEPT ![p] = "predictionsCommitted"]
    /\ lastOp' = "sync"
    /\ UNCHANGED <<week, profile, leaderboard, loc, sortVars, clientVars, clockVars, feed, rulesVars>>

SyncCommitProfiles(p) ==
    /\ pc[p] = "predictionsCommitted"
    /\ profile' = ProfilesAfterCommit(profile, loc[p])
    /\ pc' = [pc EXCEPT ![p] = "profilesCommitted"]
    /\ lastOp' = "sync"
    /\ UNCHANGED <<week, preds, leaderboard, loc, sortVars, clientVars, clockVars, feed, rulesVars>>

\* SyncLeaderboard run before the two batches are committed
SyncLeaderboardBeforeCommit(p) ==
    /\ pc[p] = "settled"
    /\ leaderboard' = BoardAfterPhase(leaderboard, week, loc[p])
    /\ pc' = [pc EXCEPT ![p] = "done"]
    /\ loc' = [loc EXCEPT ![p] = IdleLocals]
    /\ lastOp' = "sync"
    /\ UNCHANGED <<week, preds, profile, sortVars, clientVars, clockVars, feed, rulesVars>>

SyncLeaderboard(p) ==
    /\ pc[p] = "profilesCommitted"
    /\ leaderboard' = BoardAfterPhase(leaderboard, week, loc[p])
    /\ pc' = [pc EXCEPT ![p] = "done"]
    /\ loc' = [loc EXCEPT ![p] = IdleLocals]
    /\ lastOp' = "sync"
    /\ UNCHANGED <<week, preds, profile, sortVars, clientVars, clockVars, feed, rulesVars>>

NextOverlap ==
    \E p \in Passes :
        \/ SyncReadAndMerge(p)
        \/ SyncWriteWeek(p)
        \/ SyncSettle(p)
        \/ SyncCommitPredictions(p)
        \/ SyncCommitProfiles(p)
        \/ SyncLeaderboard(p)

SpecOverlap == InitOverlap /\ [][NextOverlap]_vars

(***************************************************************************)
(* The handlers with a provider that can fail: the credential is missing,  *)
(* a request fails, or the body of the scores response is malformed.  A    *)
(* malformed scores response holds, for at least one game, a record marked *)
(* completed whose scores are null or whose scores array has no entry for  *)
(* the game's teams.  lastOp records whether the call was given a fault.   *)
(***************************************************************************)
\* completed: true, scores: null
NullScoresFrag == [present |-> TRUE, completed |-> TRUE, scores |-> FALSE,
                   home |-> NullNum, away |-> NullNum]

\* completed: true, scores: [] -- parseInt(undefined?.score || 0) is 0 for both
\* teams
NoTeamsFrag == [present |-> TRUE, completed |-> TRUE, scores |-> TRUE, home |-> 0, away |-> 0]

MalformedFrags == {NullScoresFrag, NoTeamsFrag}

\* the well-formed records of the faulty provider: no record, or a home win
WellFormedFrags == {AbsentFrag,
                    [present |-> TRUE, completed |-> TRUE, scores |-> TRUE,
                     home |-> 1, away |-> 0]}

WellFormedScores == [GameIds -> WellFormedFrags]

MalformedScores ==
    {sc \in [GameIds -> WellFormedFrags \cup MalformedFrags] :
        \E g \in GameIds : sc[g] \in MalformedFrags}

\* liveScoreData.scores.find(...) on null scores, for a game of the stored list
MergeThrows(games, scores) ==
    \E i \in 1..Len(games) :
        LET f == scores[games[i].id] IN f.present /\ f.completed /\ ~f.scores

Faults == {"noCredential", "fetchError", "malformedOdds", "malformedScores"}

\* getNFLOdds without the credential, or with a failed or malformed fetch
GetNFLOddsFaulty ==
    /\ lastOp' = "getNFLOddsFaulty"
    /\ UNCHANGED <<week, preds, profile, leaderboard, pc, loc, sortVars, clientVars, clockVars, feed, rulesVars>>

\* syncNflDataAndSettle given a fault
SyncFaulty ==
    /\ week.exists
    /\ \E fault \in Faults :
          IF fault = "malformedScores"
          THEN \E odds \in OddsResponses, scores \in MalformedScores :
                  IF MergeThrows(week.games, scores)
                  THEN UNCHANGED <<week, preds, profile, leaderboard>>
                  ELSE SyncPass(odds, scores)
          ELSE UNCHANGED <<week, preds, profile, leaderboard>>
    /\ lastOp' = "syncFaulty"
    /\ UNCHANGED <<pc, loc, sortVars, clientVars, clockVars, feed, rulesVars>>

\* syncNflDataAndSettle with well-formed responses
SyncWellFormed ==
    /\ week.exists
    /\ \E odds \in OddsResponses, scores \in WellFormedScores : SyncPass(odds, scores)
    /\ lastOp' = "sync"
    /\ UNCHANGED <<pc, loc, sortVars, clientVars, clockVars, feed, rulesVars>>

NextProvider ==
    \/ GetNFLOdds
    \/ GetNFLOddsFaulty
    \/ \E u \in Users : profile[u].weeklyEntries < MaxSubmissions /\ SubmitPicks(u)
    \/ SyncWellFormed
    \/ SyncFaulty

SpecProvider == Init /\ [][NextProvider]_vars

(***************************************************************************)
(* The leaderboard sort on its own: leaderboardEntries.sort applied to     *)
(* every list of entries of up to MaxBoardEntries users, in the order the  *)
(* users collection enumerates them.  An entry's id is its position in     *)
(* that enumeration.                                                       *)
(***************************************************************************)
MaxBoardEntries == 3

\* <<totalCorrectPicks, totalWinnerBucksWon>> of a settled submission: no
\* win, one win at tier 50, one win at tier 100
EntryTotals == {<<0, 0>>, <<1, 600>>, <<1, 1500>>}
EntryGuesses == {48, 52, 55}
ActualTotals == {50}

EntryLists ==
    UNION {[1..n -> [totals : EntryTotals, guess : EntryGuesses]] : n \in 1..MaxBoardEntries}

EntriesOf(list) ==
    [i \in 1..Len(list) |->
        [id |-> i, totalCorrectPicks |-> list[i].totals[1],
         totalWinnerBucksWon |-> list[i].totals[2],
         tieBreakerPoints |-> list[i].guess]]

InitBoard ==
    /\ week = NoWeek
    /\ preds = [u \in Users |-> NoPred]
    /\ profile = [u \in Users |-> [predictorPoints |-> InitialPredictorPoints,
                                   winnerBucks |-> InitialWinnerBucks,
                                   weeklyEntries |-> 0]]
    /\ leaderboard = NoBoard
    /\ NoRequest
    /\ pc = [p \in Passes |-> "idle"]
    /\ loc = [p \in Passes |-> IdleLocals]
    /\ lastOp = "none"
    /\ \E list \in EntryLists : sortIn = EntriesOf(list)
    /\ sortTotal \in ActualTotals
    /\ sortOut = <<>>
    /\ NoSessions
    /\ NoRefs
    /\ NoFeed

\* leaderboardEntries.sort((a, b) => ...)
SortBoard ==
    /\ lastOp = "none"
    /\ sortOut' = SortEntries(sortIn, sortTotal, Len(sortIn))
    /\ lastOp' = "sort"
    /\ UNCHANGED <<week, preds, profile, leaderboard, pc, loc, sortIn, sortTotal, clientVars, clockVars, feed, rulesVars>>

NextBoard == SortBoard

SpecBoard == InitBoard /\ [][NextBoard]_vars

(***************************************************************************)
(* The browser side: handleSubmitPicks run from the sessions (tabs or      *)
(* devices) of one user against a stored week, the profile listener that   *)
(* refreshes a session's userData and userWeeklyEntriesCount, and the      *)
(* store's clock, against which the rule on predictions writes is          *)
(* evaluated.                                                              *)
(***************************************************************************)
\* submissions a session's userData.weeklyEntries may count before the model
\* stops that session
MaxCachedEntries == 4

Sessions == {1, 2}
ClientUser == "u1"
\* predictorPoints of the profile when the sessions open
ClientStartPoints == {60, 5000}
\* the form a session submits: filled in, a game without a pick, or a
\* tie-breaker field that is empty or not a number
Forms == {"filled", "missingPick", "badTieBreaker"}

\* (userData.predictorPoints || 0) < costPerEntry is false
EnoughPointsAlways(points, cost) == TRUE

EnoughPoints(points, cost) == points >= cost

\* the predictions rule with <= in place of <
RuleAllowsWriteAtEnd(t) == t <= BettingWindowEnd

\* allow create, update: if ... request.time < ...nflWeeks/{weekId}.data.bettingWindowEnd
RuleAllowsWrite(t) == t < BettingWindowEnd

\* what the profile listener stores into the session
SessionFrom(prof) ==
    [points |-> prof.predictorPoints, entries |-> prof.weeklyEntries,
     count |-> prof.weeklyEntries]

\* setUserData(prevData => ...) after a successful submission
Optimistic(c, cost) == [c EXCEPT !.points = @ - cost, !.entries = @ + 1]

InitClient ==
    /\ week = [exists |-> TRUE, games |-> GamesFromOdds(<<"g1">>),
               tieBreakerGameId |-> "g1", actualTieBreakerTotalPoints |-> NullNum]
    /\ preds = [u \in Users |-> NoPred]
    /\ \E p \in ClientStartPoints :
          /\ profile = [u \in Users |-> [predictorPoints |-> p,
                                         winnerBucks |-> InitialWinnerBucks,
                                         weeklyEntries |-> 0]]
          /\ cache = [s \in Sessions |-> [points |-> p, entries |-> 0, count |-> 0]]
    /\ leaderboard = NoBoard
    /\ NoRequest
    /\ pc = [p \in Passes |-> "idle"]
    /\ loc = [p \in Passes |-> IdleLocals]
    /\ lastOp = "none"
    /\ NoSort
    /\ NoRefs
    /\ NoFeed
    /\ clock = 0

\* time passes at the store
Tick ==
    /\ clock + 1 \in Instants
    /\ clock' = clock + 1
    /\ UNCHANGED <<week, preds, profile, leaderboard, pc, loc, lastOp, sortVars, cache, clockVars, feed, rulesVars>>

\* onSnapshot(userProfileRef): setUserData(data); setUserWeeklyEntriesCount(...)
ProfileSnapshot(s) ==
    /\ cache[s] # SessionFrom(profile[ClientUser])
    /\ cache' = [cache EXCEPT ![s] = SessionFrom(profile[ClientUser])]
    /\ UNCHANGED <<week, preds, profile, leaderboard, pc, loc, lastOp, sortVars, clock, clockVars, feed, rulesVars>>

\* handleSubmitPicks in session s; lastOp records how the attempt ended.
\* rendered is the instant of the render whose bettingOpen the handler closes
\* over; heard says whether the profile listener ran on the handler's own
\* updateDoc before the handler's setUserData.
HandleSubmitPicks(s) ==
    \E rendered \in Instants, tier \in BettingTiers, choice \in Teams,
       form \in Forms, heard \in BOOLEAN :
        LET c == cache[s]
            u == ClientUser
            accepted == /\ rendered <= clock
                        /\ BettingOpen(rendered)
                        /\ c.count < MaxEntriesPerWeek
                        /\ form # "missingPick"
                        /\ week.tieBreakerGameId \in SeqIds(week.games)
                        /\ form # "badTieBreaker"
                        /\ EnoughPoints(c.points, tier)
            written == [profile[u] EXCEPT !.predictorPoints = c.points - tier,
                                          !.weeklyEntries = c.entries + 1]
            c1 == IF heard THEN SessionFrom(written) ELSE c
        IN /\ rendered <= clock
           /\ c.entries < MaxCachedEntries
           /\ IF ~accepted
              THEN /\ lastOp' = "submitInvalid"
                   /\ UNCHANGED <<preds, profile, cache>>
              ELSE /\ profile' = [profile EXCEPT ![u] = written]
                   /\ IF RuleAllowsWrite(clock)
                      THEN /\ preds' = [preds EXCEPT ![u] =
                                  [exists |-> TRUE,
                                   picks |-> [g \in SeqIds(week.games) |->
                                                [pick |-> choice, tier |-> tier,
                                                 outcome |-> "pending", winnings |-> 0]],
                                   tieBreakerPoints |-> 1,
                                   tier |-> tier,
                                   isSettled |-> FALSE,
                                   totalCorrectPicks |-> 0,
                                   totalWinnerBucksWon |-> 0]]
                           /\ cache' = [cache EXCEPT ![s] = Optimistic(c1, tier)]
                           /\ lastOp' = "submitDone"
                      ELSE /\ preds' = preds
                           /\ cache' = [cache EXCEPT ![s] = c1]
                           /\ lastOp' = "submitRejected"
           /\ UNCHANGED <<week, leaderboard, pc, loc, sortVars, clock, clockVars, feed, rulesVars>>

NextClient ==
    \/ Tick
    \/ \E s \in Sessions : ProfileSnapshot(s)
    \/ \E s \in Sessions : HandleSubmitPicks(s)

SpecClient == InitClient /\ [][NextClient]_vars

\* ---------------------------------------------------------------------
\* The week clock, getCurrentNFLWeekInfo, as a function of the reference
\* instant. Days are counted from Sunday 22 September 2024 (day 0); an
\* instant is a day and a minute of that day, in the zone of the runtime
\* (taken without daylight-saving changes).

\* the last day a reference instant is drawn from
MaxRefDay == 13

RefDays == 0..MaxRefDay
\* 00:00, 00:01, 12:00, 17:00, 23:59
RefMinutes == {0, 1, 720, 1020, 1439}
RefInstants == [day : RefDays, minute : RefMinutes]

\* the instant of hour:minute on a day, in minutes
At(day, hour, minute) == day * 1440 + hour * 60 + minute

\* Date.prototype.getDay: 0 for Sunday .. 6 for Saturday
GetDay(day) == day % 7

\* getFullYear(), getMonth() + 1, getDate() of a day; setDate past the end
\* of September rolls into October
CalendarDate(day) ==
    IF day + 22 <= 30 THEN <<2024, 9, day + 22>> ELSE <<2024, 10, day - 8>>

\* getCurrentNFLWeekInfo with picksRevealTime on the day of bettingWindowEnd
GetCurrentNFLWeekInfoRevealThursday(now) ==
    LET tuesday == now.day + ((2 + 7 - GetDay(now.day)) % 7)
        thursday == tuesday + 2
    IN [weekId |-> CalendarDate(tuesday),
        bettingWindowStart |-> At(tuesday, 0, 1),
        bettingWindowEnd |-> At(thursday, 17, 0),
        picksRevealTime |-> At(thursday, 12, 0),
        tieBreakerGameId |-> NoGame]

GetCurrentNFLWeekInfo(now) ==
    LET currentDay == GetDay(now.day)
        tuesday == now.day + ((2 + 7 - currentDay) % 7)
        thursday == tuesday + 2
        friday == thursday + 1
    IN [weekId |-> CalendarDate(tuesday),
        bettingWindowStart |-> At(tuesday, 0, 1),
        bettingWindowEnd |-> At(thursday, 17, 0),
        picksRevealTime |-> At(friday, 12, 0),
        tieBreakerGameId |-> NoGame]

InitClock ==
    /\ week = NoWeek
    /\ preds = [u \in Users |-> NoPred]
    /\ profile = [u \in Users |-> [predictorPoints |-> InitialPredictorPoints,
                                   winnerBucks |-> InitialWinnerBucks,
                                   weeklyEntries |-> 0]]
    /\ leaderboard = NoBoard
    /\ NoRequest
    /\ pc = [p \in Passes |-> "idle"]
    /\ loc = [p \in Passes |-> IdleLocals]
    /\ lastOp = "none"
    /\ NoSort
    /\ NoSessions
    /\ NoFeed
    /\ refs \in RefInstants \X RefInstants
    /\ infos = <<>>

\* two calls of getCurrentNFLWeekInfo, at the two reference instants
WeekInfoCalls ==
    /\ infos = <<>>
    /\ infos' = <<GetCurrentNFLWeekInfo(refs[1]), GetCurrentNFLWeekInfo(refs[2])>>
    /\ lastOp' = "getCurrentNFLWeekInfo"
    /\ UNCHANGED <<week, preds, profile, leaderboard, pc, loc, sortVars, clientVars,
                   refs, feed, rulesVars>>

NextClock == WeekInfoCalls

SpecClock == InitClock /\ [][NextClock]_vars

\* ---------------------------------------------------------------------
\* Settlement of one stored submission whose picks may differ in team and
\* tier, on a provider that reports the finals 24-10 and 14-20.

\* the keys of payoutMultiplier
PayoutTiers == {25, 50, 100}

\* <<home, away>> finals of the two games
ScenarioScores == {<<24, 10>>, <<14, 20>>}

ScenarioFrags ==
    {AbsentFrag}
    \cup {[present |-> TRUE, completed |-> TRUE, scores |-> TRUE,
           home |-> q[1], away |-> q[2]] : q \in ScenarioScores}

\* a week with both games stored and one unsettled submission in the store
InitScenario ==
    /\ week = [exists |-> TRUE, games |-> GamesFromOdds(<<"g1", "g2">>),
               tieBreakerGameId |-> "g2", actualTieBreakerTotalPoints |-> NullNum]
    /\ \E choice \in [GameIds -> Teams], stake \in [GameIds -> PayoutTiers] :
          preds = [u \in Users |->
                     [exists |-> TRUE,
                      picks |-> [g \in GameIds |-> [pick |-> choice[g], tier |-> stake[g],
                                                    outcome |-> "pending", winnings |-> 0]],
                      tieBreakerPoints |-> 1, tier |-> stake["g1"], isSettled |-> FALSE,
                      totalCorrectPicks |-> 0, totalWinnerBucksWon |-> 0]]
    /\ profile = [u \in Users |-> [predictorPoints |-> InitialPredictorPoints,
                                   winnerBucks |-> InitialWinnerBucks,
                                   weeklyEntries |-> 1]]
    /\ leaderboard = NoBoard
    /\ NoRequest
    /\ pc = [p \in Passes |-> "idle"]
    /\ loc = [p \in Passes |-> IdleLocals]
    /\ lastOp = "submit"
    /\ NoSort
    /\ NoSessions
    /\ NoRefs
    /\ NoFeed

\* syncNflDataAndSettle, one whole pass, on that provider
SyncScenario ==
    /\ \E scores \in [GameIds -> ScenarioFrags] : SyncPass(<<"g1", "g2">>, scores)
    /\ lastOp' = "sync"
    /\ UNCHANGED <<pc, loc, sortVars, clientVars, clockVars, feed, rulesVars>>

NextScenario == SyncScenario

SpecScenario == InitScenario /\ [][NextScenario]_vars

\* ---------------------------------------------------------------------
\* A pass that is abandoned between two of its store operations (a rejected
\* await, or the invocation killed), followed by a pass that runs to the end
\* on the same answers of the provider.

\* the store after getNFLOdds and one submission of tier 50 on both games
SubmittedWeek ==
    [exists |-> TRUE, games |-> GamesFromOdds(<<"g1", "g2">>),
     tieBreakerGameId |-> "g2", actualTieBreakerTotalPoints |-> NullNum]

SubmittedPreds ==
    [u \in Users |->
        [exists |-> TRUE,
         picks |-> [g \in GameIds |-> [pick |-> "H", tier |-> 50,
                                       outcome |-> "pending", winnings |-> 0]],
         tieBreakerPoints |-> 1, tier |-> 50, isSettled |-> FALSE,
         totalCorrectPicks |-> 0, totalWinnerBucksWon |-> 0]]

SubmittedProfile ==
    [u \in Users |-> [predictorPoints |-> InitialPredictorPoints - 50,
                      winnerBucks |-> InitialWinnerBucks,
                      weeklyEntries |-> 1]]

InitAbandon ==
    /\ week = SubmittedWeek
    /\ preds = SubmittedPreds
    /\ profile = SubmittedProfile
    /\ leaderboard = NoBoard
    /\ NoRequest
    /\ pc = [p \in Passes |-> "idle"]
    /\ loc = [p \in Passes |-> IdleLocals]
    /\ lastOp = "submit"
    /\ NoSort
    /\ NoSessions
    /\ NoRefs
    /\ feed \in [odds : OddsResponses, scores : ScoresResponses]

\* weekDocRef.get(), both axios.get answered by the feed, the merge; the
\* second pass is triggered after the first has ended
FeedReadAndMerge(p) ==
    /\ pc[p] = "idle"
    /\ p = 1 \/ pc[1] \in {"done", "abandoned"}
    /\ loc' = [loc EXCEPT ![p] = MergedLocals(week, feed.odds, feed.scores)]
    /\ pc' = [pc EXCEPT ![p] = "merged"]
    /\ lastOp' = "sync"
    /\ UNCHANGED <<week, preds, profile, leaderboard, sortVars, clientVars, clockVars, feed, rulesVars>>

\* the first pass ends after its week update, after its prediction batch
\* commit or after its profile batch commit, its remaining operations not run
Abandon(p) ==
    /\ p = 1
    /\ pc[p] \in {"weekWritten", "settled", "predictionsCommitted", "profilesCommitted"}
    /\ pc' = [pc EXCEPT ![p] = "abandoned"]
    /\ loc' = [loc EXCEPT ![p] = IdleLocals]
    /\ lastOp' = "syncAbandoned"
    /\ UNCHANGED <<week, preds, profile, leaderboard, sortVars, clientVars, clockVars, feed, rulesVars>>

NextAbandon ==
    \E p \in Passes :
        \/ FeedReadAndMerge(p)
        \/ SyncWriteWeek(p)
        \/ SyncSettle(p)
        \/ SyncCommitPredictions(p)
        \/ SyncCommitProfiles(p)
        \/ SyncLeaderboard(p)
        \/ Abandon(p)

SpecAbandon == InitAbandon /\ [][NextAbandon]_vars

\* ---------------------------------------------------------------------
\* The scheduled passes over the days after a submission: the schedule keeps
\* triggering syncNflDataAndSettle, the provider comes to report each game
\* as completed, the days go by.

\* the submission was made on Tuesday 24 September 2024 at 12:00
SubmissionInstant == [day |-> 2, minute |-> 720]

\* the provider's answer for a completed game with the final q
CompletedFrag(q) ==
    [present |-> TRUE, completed |-> TRUE, scores |-> TRUE, home |-> q[1], away |-> q[2]]

InitLive ==
    /\ week = SubmittedWeek
    /\ preds = SubmittedPreds
    /\ profile = SubmittedProfile
    /\ leaderboard = NoBoard
    /\ NoRequest
    /\ pc = [p \in Passes |-> "idle"]
    /\ loc = [p \in Passes |-> IdleLocals]
    /\ lastOp = "submit"
    /\ NoSort
    /\ NoSessions
    /\ refs = <<SubmissionInstant>>
    /\ infos = <<GetCurrentNFLWeekInfo(SubmissionInstant)>>
    /\ \E finals \in [GameIds -> FinalScores] :
          feed = [odds |-> <<"g1", "g2">>,
                  scores |-> [g \in GameIds |-> AbsentFrag],
                  finals |-> finals]

\* a day goes by
AdvanceDay ==
    /\ refs[1].day < MaxRefDay
    /\ refs' = <<[refs[1] EXCEPT !.day = @ + 1]>>
    /\ UNCHANGED <<week, preds, profile, leaderboard, pc, loc, lastOp, sortVars,
                   clientVars, infos, feed, rulesVars>>

\* from now on the provider reports game g as completed, with its final
ProviderReports(g) ==
    /\ ~feed.scores[g].completed
    /\ feed' = [feed EXCEPT !.scores[g] = CompletedFrag(feed.finals[g])]
    /\ UNCHANGED <<week, preds, profile, leaderboard, pc, loc, lastOp, sortVars,
                   clientVars, clockVars, rulesVars>>

\* onSchedule({schedule: 'every 1 minute'})
TriggerSync ==
    /\ lastOp # "syncTriggered"
    /\ lastOp' = "syncTriggered"
    /\ UNCHANGED <<week, preds, profile, leaderboard, pc, loc, sortVars,
                   clientVars, clockVars, feed, rulesVars>>

\* a request of the triggered pass fails: the catch block, nothing written
LiveSyncFetchFails ==
    /\ lastOp = "syncTriggered"
    /\ lastOp' = "syncFaulty"
    /\ UNCHANGED <<week, preds, profile, leaderboard, pc, loc, sortVars,
                   clientVars, clockVars, feed, rulesVars>>

\* the triggered pass, whole: it works on the week document and the
\* predictions documents named by getCurrentNFLWeekInfo().weekId of its day
LiveSync ==
    /\ lastOp = "syncTriggered"
    /\ IF GetCurrentNFLWeekInfo(refs[1]).weekId = infos[1].weekId
       THEN SyncPass(feed.odds, feed.scores) /\ lastOp' = "sync"
       ELSE UNCHANGED <<week, preds, profile, leaderboard>> /\ lastOp' = "syncOtherWeek"
    /\ UNCHANGED <<pc, loc, sortVars, clientVars, clockVars, feed, rulesVars>>

NextLive ==
    \/ AdvanceDay
    \/ \E g \in GameIds : ProviderReports(g)
    \/ TriggerSync
    \/ LiveSyncFetchFails
    \/ LiveSync

\* the schedule keeps triggering, a triggered pass fetches successfully again
\* and again, the provider comes to report every game, time goes on
SpecLive ==
    /\ InitLive
    /\ [][NextLive]_vars
    /\ WF_vars(AdvanceDay)
    /\ WF_vars(\E g \in GameIds : ProviderReports(g))
    /\ WF_vars(TriggerSync)
    /\ SF_vars(LiveSync)

\* ---------------------------------------------------------------------
\* One pass over two users, user by user, in which the work for a user may
\* throw or a batch commit may be rejected.

\* usersSnapshot.docs, in order
Settlers == <<"u1", "u2">>
SettlerIds == {Settlers[i] : i \in 1..Len(Settlers)}

\* the answers of the provider for the two stored games
SettlerFrags == {AbsentFrag} \cup {CompletedFrag(q) : q \in FinalScores}

InitSettlers ==
    /\ week = SubmittedWeek
    /\ \E choice \in [SettlerIds -> [GameIds -> Teams]] :
          preds = [u \in SettlerIds |->
                     [exists |-> TRUE,
                      picks |-> [g \in GameIds |-> [pick |-> choice[u][g], tier |-> 50,
                                                    outcome |-> "pending", winnings |-> 0]],
                      tieBreakerPoints |-> 1, tier |-> 50, isSettled |-> FALSE,
                      totalCorrectPicks |-> 0, totalWinnerBucksWon |-> 0]]
    /\ profile = [u \in SettlerIds |-> [predictorPoints |-> InitialPredictorPoints - 50,
                                        winnerBucks |-> InitialWinnerBucks,
                                        weeklyEntries |-> 1]]
    /\ leaderboard = NoBoard
    /\ NoRequest
    /\ pc = [p \in Passes |-> "idle"]
    /\ loc = [p \in Passes |-> IdleLocals]
    /\ lastOp = "submit"
    /\ NoSort
    /\ NoSessions
    /\ NoRefs
    /\ feed \in [odds : {<<"g1", "g2">>}, scores : [GameIds -> SettlerFrags]]

\* read, fetch, merge, weekDocRef.update, usersSnapshot and the two new batches
SettlersReadMergeWrite ==
    /\ pc[1] = "idle"
    /\ LET l1 == MergedLocals(week, feed.odds, feed.scores)
       IN /\ week' = WeekAfterUpdate(week, l1)
          /\ loc' = [loc EXCEPT ![1] =
                        [games |-> l1.games, atp |-> l1.atp,
                         predBatch |-> [u \in SettlerIds |-> NoUpdate],
                         profBatch |-> [u \in SettlerIds |-> 0],
                         next |-> 1, failed |-> 0]]
    /\ pc' = [pc EXCEPT ![1] = "settling"]
    /\ lastOp' = "sync"
    /\ UNCHANGED <<preds, profile, leaderboard, sortVars, clientVars, clockVars, feed, rulesVars>>

\* one iteration of for (const userDoc of usersSnapshot.docs)
SettleNextUser ==
    /\ pc[1] = "settling"
    /\ loc[1].next <= Len(Settlers)
    /\ LET u == Settlers[loc[1].next]
           upd == SettleSubmission(preds[u], loc[1].games)
       IN loc' = [loc EXCEPT ![1] =
                    IF NeedsSettlement(preds[u])
                    THEN [@ EXCEPT !.predBatch[u] = upd,
                                   !.profBatch[u] = NetWinnings(preds[u], upd),
                                   !.next = @ + 1]
                    ELSE [@ EXCEPT !.next = @ + 1]]
    /\ lastOp' = "sync"
    /\ UNCHANGED <<week, preds, profile, leaderboard, pc, sortVars, clientVars,
                   clockVars, feed, rulesVars>>

\* the iteration for the next user throws (its userPredictionsRef.get()
\* is rejected): control goes to the catch block, no batch is committed
SettleNextUserThrows ==
    /\ pc[1] = "settling"
    /\ loc[1].next <= Len(Settlers)
    /\ loc' = [loc EXCEPT ![1].failed = loc[1].next]
    /\ pc' = [pc EXCEPT ![1] = "failed"]
    /\ lastOp' = "syncUserFailed"
    /\ UNCHANGED <<week, preds, profile, leaderboard, sortVars, clientVars,
                   clockVars, feed, rulesVars>>

\* userPredictionUpdatesBatch.commit()
CommitPredictionBatch ==
    /\ pc[1] = "settling"
    /\ loc[1].next > Len(Settlers)
    /\ preds' = [u \in SettlerIds |->
                    IF loc[1].predBatch[u] = NoUpdate THEN preds[u]
                    ELSE ApplyPredictionUpdate(preds[u], loc[1].predBatch[u])]
    /\ pc' = [pc EXCEPT ![1] = "predictionsCommitted"]
    /\ lastOp' = "sync"
    /\ UNCHANGED <<week, profile, leaderboard, loc, sortVars, clientVars, clockVars, feed, rulesVars>>

\* userProfileUpdatesBatch.commit()
CommitProfileBatch ==
    /\ pc[1] = "predictionsCommitted"
    /\ profile' = [u \in SettlerIds |->
                      [profile[u] EXCEPT !.winnerBucks = @ + loc[1].profBatch[u]]]
    /\ pc' = [pc EXCEPT ![1] = "profilesCommitted"]
    /\ lastOp' = "sync"
    /\ UNCHANGED <<week, preds, leaderboard, loc, sortVars, clientVars, clockVars, feed, rulesVars>>

\* userProfileUpdatesBatch.commit() is rejected because the update of one
\* user's profile fails; a batch is applied as a whole or not at all
CommitProfileBatchRejected ==
    /\ pc[1] = "predictionsCommitted"
    /\ \E i \in 1..Len(Settlers) :
          /\ loc[1].profBatch[Settlers[i]] > 0
          /\ loc' = [loc EXCEPT ![1].failed = i]
    /\ pc' = [pc EXCEPT ![1] = "failed"]
    /\ lastOp' = "syncUserFailed"
    /\ UNCHANGED <<week, preds, profile, leaderboard, sortVars, clientVars,
                   clockVars, feed, rulesVars>>

\* the leaderboard phase
SettlersLeaderboard ==
    /\ pc[1] = "profilesCommitted"
    /\ leaderboard' = BoardAfterPhase(leaderboard, week, loc[1])
    /\ pc' = [pc EXCEPT ![1] = "done"]
    /\ lastOp' = "sync"
    /\ UNCHANGED <<week, preds, profile, loc, sortVars, clientVars, clockVars, feed, rulesVars>>

NextSettlers ==
    \/ SettlersReadMergeWrite
    \/ SettleNextUser
    \/ SettleNextUserThrows
    \/ CommitPredictionBatch
    \/ CommitProfileBatch
    \/ CommitProfileBatchRejected
    \/ SettlersLeaderboard

SpecSettlers == InitSettlers /\ [][NextSettlers]_vars

\* ---------------------------------------------------------------------
\* The week id helpers of the two pages against getCurrentNFLWeekInfo of the
\* functions, at one instant read on the functions' clock and on the clock
\* of the browser.

\* the browser's zone, in minutes ahead of the zone of the functions
ZoneOffsets == {-300, 0, 540}

\* the wall clock of the instant ref in a zone offset minutes ahead
LocalTime(ref, offset) ==
    LET total == At(ref.day + 7, 0, ref.minute) + offset
    IN [day |-> (total \div 1440) - 7, minute |-> total % 1440]

\* getCurrentNFLWeekInfo of NFLGamePicks
PicksPageWeekInfo(now) ==
    LET currentDay == GetDay(now.day)
        tuesday == now.day + ((2 + 7 - currentDay) % 7)
    IN [weekId |-> CalendarDate(tuesday)]

\* getCurrentNFLWeekInfo of LeaderboardDashboard
DashboardWeekInfo(now) ==
    LET currentDay == GetDay(now.day)
        tuesday == now.day + ((2 + 7 - currentDay) % 7)
    IN [weekId |-> CalendarDate(tuesday)]

InitZones ==
    /\ week = NoWeek
    /\ preds = [u \in Users |-> NoPred]
    /\ profile = [u \in Users |-> [predictorPoints |-> InitialPredictorPoints,
                                   winnerBucks |-> InitialWinnerBucks,
                                   weeklyEntries |-> 0]]
    /\ leaderboard = NoBoard
    /\ NoRequest
    /\ pc = [p \in Passes |-> "idle"]
    /\ loc = [p \in Passes |-> IdleLocals]
    /\ lastOp = "none"
    /\ NoSort
    /\ NoSessions
    /\ NoFeed
    /\ \E r \in RefInstants, z \in ZoneOffsets : refs = <<r, LocalTime(r, z)>>
    /\ infos = <<>>

\* the three helpers called at that instant
WeekIdCalls ==
    /\ infos = <<>>
    /\ infos' = <<GetCurrentNFLWeekInfo(refs[1]),
                  PicksPageWeekInfo(refs[2]),
                  DashboardWeekInfo(refs[2])>>
    /\ lastOp' = "getCurrentNFLWeekInfo"
    /\ UNCHANGED <<week, preds, profile, leaderboard, pc, loc, sortVars, clientVars,
                   refs, feed, rulesVars>>

NextZones == WeekIdCalls

SpecZones == InitZones /\ [][NextZones]_vars

\* ---------------------------------------------------------------------
\* firestore.rules on users/{userId}/predictions/{weekId}: requests of
\* browsers, judged against the stored week document.

\* the instant of picksRevealTime of the stored week, among Instants
PicksRevealTime == 3

\* request.auth: null, or the uid of a signed-in user
NoAuth == "anon"
Requesters == {NoAuth, "u1", "u2"}
\* the {userId} segment of the path
Owners == {"u1", "u2"}
\* get and list are reads; create, update and delete are writes
RequestMethods == {"get", "list", "create", "update", "delete"}

\* function isAuthenticated()
IsAuthenticated(auth) == auth # NoAuth

\* request.time against a field of get(.../nflWeeks/$(weekId)).data: an
\* error, hence false, when the document is missing or the stored value does
\* not compare with a timestamp
AtOrAfterReveal(t, w, comparable) == w.exists /\ comparable /\ t >= PicksRevealTime
BeforeWindowEnd(t, w, comparable) == w.exists /\ comparable /\ RuleAllowsWrite(t)

\* allow create, update
AllowPredictionsWrite(r, w, comparable) ==
    /\ IsAuthenticated(r.auth)
    /\ r.auth = r.userId
    /\ BeforeWindowEnd(r.time, w, comparable)

\* the two allow read statements without the test on picksRevealTime
AllowPredictionsReadAnyTime(r, w, comparable) ==
    \/ IsAuthenticated(r.auth) /\ r.auth = r.userId
    \/ IsAuthenticated(r.auth) /\ r.auth # r.userId

\* the two allow read statements
AllowPredictionsRead(r, w, comparable) ==
    \/ IsAuthenticated(r.auth) /\ r.auth = r.userId
    \/ /\ IsAuthenticated(r.auth)
       /\ r.auth # r.userId
       /\ AtOrAfterReveal(r.time, w, comparable)

\* the rules of the match block; nothing allows delete
RulesAllow(r, w, comparable) ==
    CASE r.method \in {"get", "list"} -> AllowPredictionsRead(r, w, comparable)
      [] r.method \in {"create", "update"} -> AllowPredictionsWrite(r, w, comparable)
      [] OTHER -> FALSE

InitRules ==
    /\ week \in {NoWeek, SubmittedWeek}
    /\ preds = [u \in Users |-> NoPred]
    /\ profile = [u \in Users |-> [predictorPoints |-> InitialPredictorPoints,
                                   winnerBucks |-> InitialWinnerBucks,
                                   weeklyEntries |-> 0]]
    /\ leaderboard = NoBoard
    /\ pc = [p \in Passes |-> "idle"]
    /\ loc = [p \in Passes |-> IdleLocals]
    /\ lastOp = "none"
    /\ NoSort
    /\ NoSessions
    /\ NoRefs
    /\ NoFeed
    /\ NoRequest

\* a request on a predictions document arrives and is judged
JudgeRequest ==
    /\ \E r \in [auth : Requesters, userId : Owners, method : RequestMethods,
                 time : Instants], comparable \in BOOLEAN :
          /\ request' = r
          /\ decision' = [allowed |-> RulesAllow(r, week, comparable)]
    /\ lastOp' = "request"
    /\ UNCHANGED <<week, preds, profile, leaderboard, pc, loc, sortVars, clientVars,
                   clockVars, feed>>

NextRules == JudgeRequest

SpecRules == InitRules /\ [][NextRules]_vars

\* ---------------------------------------------------------------------
\* The week document alone: getNFLOdds calls and whole passes, no submission.

NextWeek ==
    \/ GetNFLOdds
    \/ SyncNflDataAndSettle

SpecWeek == Init /\ [][NextWeek]_vars

\* ---------------------------------------------------------------------
\* The game record built from one event of the odds response, by getNFLOdds
\* and by the append of the merge, odds included.

\* american prices of an outcome
Prices == {-110, 120}

\* a bookmaker offers one market: h2h with a price for each team, or another
Bookmakers ==
    {[markets |-> <<m>>] :
        m \in {[key |-> "h2h", outcomes |-> <<[name |-> "H", price |-> ph],
                                              [name |-> "A", price |-> pa]>>] :
                  ph \in Prices, pa \in Prices}
              \cup {[key |-> "spreads", outcomes |-> <<>>]}}

\* an event of the response; event.bookmakers holds none, one or two
OddsEvents ==
    [id : GameIds,
     bookmakers : {<<>>} \cup {<<b>> : b \in Bookmakers}
                         \cup {<<b, c>> : b \in Bookmakers, c \in Bookmakers}]

\* the first bookmaker's h2h prices as an object name -> price, an empty
\* object without a bookmaker or without an h2h market
FirstH2hPrices(event) ==
    LET empty == [t \in {} |-> 0]
        PriceMap(outcomes) ==
            [t \in {outcomes[i].name : i \in 1..Len(outcomes)} |->
                (CHOOSE o \in {outcomes[i] : i \in 1..Len(outcomes)} : o.name = t).price]
    IN IF Len(event.bookmakers) = 0 THEN empty
       ELSE LET markets == event.bookmakers[1].markets
                found == {markets[i] : i \in {j \in 1..Len(markets) : markets[j].key = "h2h"}}
            IN IF found = {} THEN empty
               ELSE PriceMap((CHOOSE m \in found : TRUE).outcomes)

\* getNFLOdds: oddsResponse.data.map(event => ...)
CreatedGame(event) ==
    [id |-> event.id, completed |-> FALSE, home |-> NullNum, away |-> NullNum,
     odds |-> [moneyline |-> FirstH2hPrices(event)]]

\* syncNflDataAndSettle: updatedWeekGames.push({...})
AppendedGame(event) ==
    [id |-> event.id, completed |-> FALSE, home |-> NullNum, away |-> NullNum,
     odds |-> FirstH2hPrices(event)]

InitShape ==
    /\ week = NoWeek
    /\ preds = [u \in Users |-> NoPred]
    /\ profile = [u \in Users |-> [predictorPoints |-> InitialPredictorPoints,
                                   winnerBucks |-> InitialWinnerBucks,
                                   weeklyEntries |-> 0]]
    /\ leaderboard = NoBoard
    /\ NoRequest
    /\ pc = [p \in Passes |-> "idle"]
    /\ loc = [p \in Passes |-> IdleLocals]
    /\ lastOp = "none"
    /\ NoSort
    /\ NoSessions
    /\ NoRefs
    /\ feed \in [event : OddsEvents]

\* the event goes through getNFLOdds, which stores the game, and through the
\* append of a pass on a week that does not hold it, which pushes the game
\* onto updatedWeekGames
BuildGameBothWays ==
    /\ lastOp = "none"
    /\ week' = [exists |-> TRUE, games |-> <<CreatedGame(feed.event)>>,
                tieBreakerGameId |-> feed.event.id,
                actualTieBreakerTotalPoints |-> NullNum]
    /\ loc' = [loc EXCEPT ![1].games = <<AppendedGame(feed.event)>>]
    /\ lastOp' = "gameBuilt"
    /\ UNCHANGED <<preds, profile, leaderboard, pc, sortVars, clientVars, clockVars,
                   feed, rulesVars>>

SpecShape == InitShape /\ [][BuildGameBothWays]_vars

(***************************************************************************)
(* Properties.                                                             *)
(***************************************************************************)
\* every game list over the known ids, in every stored shape
GameRecs(id) ==
    {NewGame(id)}
    \cup {[id |-> id, completed |-> c, home |-> q[1], away |-> q[2]] :
            c \in BOOLEAN, q \in FinalScores}

GameLists ==
    {<<a>> : a \in UNION {GameRecs(id) : id \in GameIds}}
    \cup {<<a, b>> : a \in GameRecs("g1"), b \in GameRecs("g2")}
    \cup {<<b, a>> : a \in GameRecs("g1"), b \in GameRecs("g2")}

IsTerminal(o) == o \in {"win", "loss"}

\* C1: settling an unsettled submission a second time against the same game
\* list gives the pick outcomes and the two totals of the first run.
C1_SettlementIdempotent ==
    \A u \in Users :
        NeedsSettlement(preds[u]) =>
            \A G \in GameLists :
                LET r1 == SettleSubmission(preds[u], G)
                    r2 == SettleSubmission(ApplyPredictionUpdate(preds[u], r1), G)
                IN /\ r2.picks = r1.picks
                   /\ r2.totalCorrectPicks = r1.totalCorrectPicks
                   /\ r2.totalWinnerBucksWon = r1.totalWinnerBucksWon

\* a pass has stored a partly settled submission: one pick won, one pending
C1_Witness ==
    \E u \in Users :
        /\ lastOp = "sync"
        /\ NeedsSettlement(preds[u])
        /\ preds[u].totalWinnerBucksWon > 0
        /\ \E g, h \in DOMAIN preds[u].picks :
              /\ preds[u].picks[g].outcome = "win"
              /\ preds[u].picks[h].outcome = "pending"

\* C2: a pass that processes an unsettled submission adds to the owner's
\* winnerBucks exactly the new totalWinnerBucksWon minus the stored one.
C2_CreditIsDelta ==
    [][lastOp' = "sync" =>
        \A u \in Users :
            NeedsSettlement(preds[u]) =>
                profile'[u].winnerBucks - profile[u].winnerBucks
                    = preds'[u].totalWinnerBucksWon - preds[u].totalWinnerBucksWon]_vars

\* C3: a pending pick whose game is completed in the merged week without a
\* winner, or with a winner other than the picked team, becomes a loss with
\* winnings 0.
C3_NoWinnerIsLoss ==
    [][lastOp' = "sync" =>
        \A u \in Users :
            NeedsSettlement(preds[u]) =>
                \A g \in DOMAIN preds[u].picks :
                    (/\ preds[u].picks[g].outcome = "pending"
                     /\ GameDone(week'.games, g)
                     /\ Winner(GameById(week'.games, g)) # preds[u].picks[g].pick)
                    => /\ preds'[u].picks[g].outcome = "loss"
                       /\ preds'[u].picks[g].winnings = 0]_vars

\* C4: no pass changes a stored outcome that is win or loss.
C4_TerminalOutcomeKept ==
    [][lastOp' = "sync" =>
        \A u \in Users :
            preds[u].exists =>
                /\ preds'[u].exists
                /\ \A g \in DOMAIN preds[u].picks :
                      IsTerminal(preds[u].picks[g].outcome) =>
                          /\ g \in DOMAIN preds'[u].picks
                          /\ preds'[u].picks[g].outcome = preds[u].picks[g].outcome]_vars

\* a pass has run on a game whose winner is no longer the team of a pick it
\* had stored as won, and the submission is still unsettled
C4_Witness ==
    \E u \in Users :
        /\ lastOp = "sync"
        /\ NeedsSettlement(preds[u])
        /\ \E g \in DOMAIN preds[u].picks :
              /\ preds[u].picks[g].outcome = "win"
              /\ GameDone(week.games, g)
              /\ Winner(GameById(week.games, g)) # preds[u].picks[g].pick

\* C5: a pass leaves a submission stored with isSettled = true, and its
\* owner's winnerBucks, as they are.
C5_SettledUntouched ==
    [][lastOp' = "sync" =>
        \A u \in Users :
            (preds[u].exists /\ preds[u].isSettled) =>
                /\ preds'[u] = preds[u]
                /\ profile'[u].winnerBucks = profile[u].winnerBucks]_vars

\* a pass has run after a submission was settled, on a week in which one of
\* its games is no longer completed
C5_Witness ==
    \E u \in Users :
        /\ lastOp = "sync"
        /\ preds[u].exists
        /\ preds[u].isSettled
        /\ \E g \in DOMAIN preds[u].picks : ~GameDone(week.games, g)

\* C6: the merge of a pass never turns completed from true to false.
C6_CompletedSticky ==
    [][lastOp' = "sync" =>
        \A i \in 1..Len(week.games) :
            week.games[i].completed => GameDone(week'.games, week.games[i].id)]_vars

\* C7: a stored tieBreakerGameId that is not null never changes.
C7_TieBreakerGameFixed ==
    [][(week.exists /\ week.tieBreakerGameId # NoGame) =>
        week'.tieBreakerGameId = week.tieBreakerGameId]_vars

\* C8: once actualTieBreakerTotalPoints is stored, no pass changes it.
C8_TotalSetOnce ==
    [][lastOp' = "sync" =>
        (week.actualTieBreakerTotalPoints # NullNum =>
            week'.actualTieBreakerTotalPoints = week.actualTieBreakerTotalPoints)]_vars

CompletedKept ==
    \A i \in 1..Len(week.games) :
        week.games[i].completed => GameDone(week'.games, week.games[i].id)

OutcomeKept ==
    \A u \in Users : \A g \in DOMAIN preds[u].picks :
        IsTerminal(preds[u].picks[g].outcome) =>
            preds'[u].picks[g].outcome = preds[u].picks[g].outcome

TotalKept ==
    week.actualTieBreakerTotalPoints # NullNum =>
        week'.actualTieBreakerTotalPoints = week.actualTieBreakerTotalPoints

\* C9: with two passes overlapping, no step reverts completed, reverts a win
\* or loss, or changes a stored actualTieBreakerTotalPoints.
C9_MonotoneUnderOverlap == [][CompletedKept /\ OutcomeKept /\ TotalKept]_vars

\* C10: with two passes overlapping, what has been added to the owner's
\* winnerBucks for the submission is at most its totalWinnerBucksWon.
C10_CreditAtMostTotal ==
    \A u \in Users :
        profile[u].winnerBucks - InitialWinnerBucks <= preds[u].totalWinnerBucksWon

\* every game of the stored week is completed and the stored total is known
BoardDue(w) ==
    /\ \A i \in 1..Len(w.games) : w.games[i].completed
    /\ w.actualTieBreakerTotalPoints # NullNum

EntryIds(board) == {board.entries[i].id : i \in 1..Len(board.entries)}

\* C11: a leaderboard built by a pass has one entry for every user whose
\* stored submission is settled, none for any other user, and each entry
\* carries the totals and the tie-breaker guess of that submission.
C11_BoardHasSettledUsers ==
    [][(lastOp' = "sync" /\ BoardDue(week')) =>
        /\ EntryIds(leaderboard') = {u \in Users : preds'[u].exists /\ preds'[u].isSettled}
        /\ \A i \in 1..Len(leaderboard'.entries) :
              LET e == leaderboard'.entries[i] IN
              /\ e.totalCorrectPicks = preds'[e.id].totalCorrectPicks
              /\ e.totalWinnerBucksWon = preds'[e.id].totalWinnerBucksWon
              /\ e.tieBreakerPoints = preds'[e.id].tieBreakerPoints]_vars

\* C12: a pass writes the leaderboard when, after its week update, every
\* stored game is completed and the stored total is known, and leaves the
\* leaderboard as it is otherwise.
C12_BoardAllOrNothing ==
    [][lastOp' = "sync" =>
        IF BoardDue(week') THEN leaderboard'.exists ELSE leaderboard' = leaderboard]_vars

\* a pass has run on a week that is no longer complete while a leaderboard
\* written by an earlier pass exists
C12_Witness ==
    /\ lastOp = "sync"
    /\ leaderboard.exists
    /\ ~BoardDue(week)

\* a may stand before b in a leaderboard whose actual total is t
MayPrecede(a, b, t) ==
    \/ a.totalCorrectPicks > b.totalCorrectPicks
    \/ /\ a.totalCorrectPicks = b.totalCorrectPicks
       /\ a.totalWinnerBucksWon > b.totalWinnerBucksWon
    \/ /\ a.totalCorrectPicks = b.totalCorrectPicks
       /\ a.totalWinnerBucksWon = b.totalWinnerBucksWon
       /\ Abs(a.tieBreakerPoints - t) <= Abs(b.tieBreakerPoints - t)

\* C13: in a sorted leaderboard an entry placed before another has more
\* correct picks, or as many and more Winner Bucks, or as many of both and a
\* guess at least as close to the actual total.
C13_BoardOrdered ==
    lastOp = "sort" =>
        \A i, j \in 1..Len(sortOut) :
            i < j => MayPrecede(sortOut[i], sortOut[j], sortTotal)

\* two users equal on picks and bucks, the one enumerated first guessed 55
\* and the other 48, the actual total is 50: the sort has put 48 above 55
C13_Witness ==
    /\ lastOp = "sort"
    /\ sortTotal = 50
    /\ \E i, j \in 1..Len(sortIn) :
          /\ i < j
          /\ sortIn[i].tieBreakerPoints = 55
          /\ sortIn[j].tieBreakerPoints = 48
          /\ sortIn[i].totalCorrectPicks = sortIn[j].totalCorrectPicks
          /\ sortIn[i].totalWinnerBucksWon = sortIn[j].totalWinnerBucksWon
          /\ \E k, l \in 1..Len(sortOut) :
                k < l /\ sortOut[k] = sortIn[j] /\ sortOut[l] = sortIn[i]

C15_SubmissionKept ==
    [][preds[ClientUser].exists => preds'[ClientUser] = preds[ClientUser]]_vars

\* C16: a submission attempt that fails, in validation or at the store,
\* leaves the profile and the predictions document unchanged.
C16_FailedAttemptNoWrite ==
    [][lastOp' \in {"submitInvalid", "submitRejected"} =>
        (profile' = profile /\ preds' = preds)]_vars

\* C17: the stored weeklyEntries of the week never exceeds maxEntriesPerWeek.
C17_EntriesAtMostCap ==
    profile[ClientUser].weeklyEntries <= MaxEntriesPerWeek

\* C18: the stored predictorPoints is never negative.
C18_PointsNotNegative ==
    profile[ClientUser].predictorPoints >= 0

\* a submission has brought the stored balance below the lowest tier
C18_Witness ==
    /\ lastOp = "submitDone"
    /\ \A tier \in BettingTiers : profile[ClientUser].predictorPoints < tier

\* C19: the predictions document changes only at an instant before
\* bettingWindowEnd.
C19_WriteBeforeEnd ==
    [][preds' # preds => clock < BettingWindowEnd]_vars

\* a submission that the page let through was refused at or after
\* bettingWindowEnd
C19_Witness ==
    /\ lastOp = "submitRejected"
    /\ clock >= BettingWindowEnd

\* C20: a call that was given no credential, a failed request or a
\* malformed response writes nothing: week, submissions, profiles and
\* leaderboard are as before the call.
C20_FaultyCallNoWrite ==
    [][lastOp' \in {"getNFLOddsFaulty", "syncFaulty"} =>
        UNCHANGED <<week, preds, profile, leaderboard>>]_vars

\* C23: over sequential passes the stored totalCorrectPicks and
\* totalWinnerBucksWon of a submission never decrease and isSettled never
\* goes from true to false.
C23_TotalsNeverDecrease ==
    [][lastOp' = "sync" =>
        \A u \in Users :
            preds[u].exists =>
                /\ preds'[u].totalCorrectPicks >= preds[u].totalCorrectPicks
                /\ preds'[u].totalWinnerBucksWon >= preds[u].totalWinnerBucksWon
                /\ (preds[u].isSettled => preds'[u].isSettled)]_vars

\* C24: merging the same odds and scores a second time gives the game list
\* of the first merge.
C24_MergeIdempotent ==
    week.exists =>
        \A odds \in OddsResponses, scores \in ScoresResponses :
            LET once == MergeGames(week.games, odds, scores)
            IN MergeGames(once, odds, scores) = once

Ids(games) == [i \in 1..Len(games) |-> games[i].id]

RECURSIVE NewIds(_, _, _)
NewIds(odds, known, i) ==
    IF i > Len(odds) THEN <<>>
    ELSE IF odds[i] \in known THEN NewIds(odds, known, i + 1)
    ELSE <<odds[i]>> \o NewIds(odds, known \cup {odds[i]}, i + 1)

C29_SettledIffAllDone ==
    [][lastOp' = "sync" =>
        \A u \in Users :
            NeedsSettlement(preds[u]) =>
                preds'[u].isSettled =
                    (\A g \in DOMAIN preds[u].picks : GameDone(week'.games, g))]_vars

\* a pass has left a submission unsettled whose only open pick is on a game
\* that is no longer in the week
C29_Witness ==
    \E u \in Users :
        /\ lastOp = "sync"
        /\ NeedsSettlement(preds[u])
        /\ \E g \in DOMAIN preds[u].picks : ~HasGame(week.games, g)
        /\ \A g \in DOMAIN preds[u].picks : HasGame(week.games, g) => GameDone(week.games, g)

\* position of a pass in its sequence of awaited store operations
PassRank(position) ==
    CASE position = "idle" -> 0
      [] position = "merged" -> 1
      [] position = "weekWritten" -> 2
      [] position = "settled" -> 3
      [] position = "predictionsCommitted" -> 4
      [] position = "profilesCommitted" -> 5
      [] OTHER -> 6

\* C28: the phases of one pass are strictly ordered. A pass reads the
\* submissions for settlement only after its week write, runs the leaderboard
\* phase only after both of its settlement commits, and each store is
\* written only by a pass standing at the step of that write: week, then
\* predictions, then profiles, then leaderboard.
C28_PhasesOrdered ==
    [][/\ \A p \in Passes :
            pc'[p] # pc[p] => PassRank(pc'[p]) = PassRank(pc[p]) + 1
       /\ week' # week =>
            \E p \in Passes : pc[p] = "merged" /\ pc'[p] = "weekWritten"
       /\ preds' # preds =>
            \E p \in Passes : pc[p] = "settled" /\ pc'[p] = "predictionsCommitted"
       /\ profile' # profile =>
            \E p \in Passes : pc[p] = "predictionsCommitted" /\ pc'[p] = "profilesCommitted"
       /\ leaderboard' # leaderboard =>
            \E p \in Passes : pc[p] = "profilesCommitted" /\ pc'[p] = "done"]_vars

\* a pass has gone through all three phases: the week is final, the
\* submission is settled, the profile credited and the leaderboard written
C28_Witness ==
    \E p \in Passes, u \in Users :
        /\ pc[p] = "done"
        /\ \A i \in 1..Len(week.games) : week.games[i].completed
        /\ preds[u].isSettled
        /\ profile[u].winnerBucks > InitialWinnerBucks
        /\ leaderboard.exists

\* the calendar week of an instant: weeks run from a Tuesday 00:01 up to the
\* next Tuesday 00:01 (day 2 is a Tuesday; the shift keeps the dividend positive)
CalendarWeek(ref) == (At(ref.day + 7, 0, ref.minute) - At(2, 0, 1)) \div (7 * 1440)

\* C26: two instants of the same calendar week get the same weekId and the
\* same three boundaries; two instants of adjacent calendar weeks get
\* different weekIds.
C26_WeekIdStable ==
    infos # <<>> =>
        /\ CalendarWeek(refs[1]) = CalendarWeek(refs[2]) =>
              /\ infos[1].weekId = infos[2].weekId
              /\ infos[1].bettingWindowStart = infos[2].bettingWindowStart
              /\ infos[1].bettingWindowEnd = infos[2].bettingWindowEnd
              /\ infos[1].picksRevealTime = infos[2].picksRevealTime
        /\ CalendarWeek(refs[1]) + 1 = CalendarWeek(refs[2]) =>
              infos[1].weekId # infos[2].weekId

\* C27: for every reference instant the week start is a Tuesday 00:01,
\* bettingWindowEnd is 17:00 two days later and picksRevealTime 12:00
\* three days later, so start < end < reveal.
C27_BoundariesFixedOffsets ==
    infos # <<>> =>
        \A i \in 1..2 :
            LET w == infos[i]
                startDay == w.bettingWindowStart \div 1440
            IN /\ GetDay(startDay) = 2
               /\ w.bettingWindowStart = At(startDay, 0, 1)
               /\ w.bettingWindowEnd = At(startDay + 2, 17, 0)
               /\ w.picksRevealTime = At(startDay + 3, 12, 0)
               /\ w.bettingWindowStart < w.bettingWindowEnd
               /\ w.bettingWindowEnd < w.picksRevealTime

\* the clock was called on a Saturday at 23:59 and on a Tuesday at 00:00, and
\* one of the computed weeks starts in the next month
C27_Witness ==
    /\ infos # <<>>
    /\ GetDay(refs[1].day) = 6 /\ refs[1].minute = 1439
    /\ GetDay(refs[2].day) = 2 /\ refs[2].minute = 0
    /\ infos[1].weekId[2] = 10

\* the stored game g is completed with the score home-away
FinalIs(games, g, home, away) ==
    /\ GameDone(games, g)
    /\ GameById(games, g).home = home
    /\ GameById(games, g).away = away

IsWin(p, amount) == p.outcome = "win" /\ p.winnings = amount

\* C30: scenario A. A submission with a pending tier-50 pick on the home
\* team of game 1 and a pending tier-25 pick on the away team of game 2 is
\* settled by one pass that sees game 1 final at 24-10 and game 2 final at
\* 14-20: both picks win, totalCorrectPicks is 2, totalWinnerBucksWon is
\* 8.5 (850 hundredths) and isSettled is true.
C30_ScenarioA ==
    [][\A u \in Users :
        (/\ lastOp' = "sync"
         /\ NeedsSettlement(preds[u])
         /\ preds[u].picks["g1"] = [pick |-> "H", tier |-> 50, outcome |-> "pending", winnings |-> 0]
         /\ preds[u].picks["g2"] = [pick |-> "A", tier |-> 25, outcome |-> "pending", winnings |-> 0]
         /\ FinalIs(week'.games, "g1", 24, 10)
         /\ FinalIs(week'.games, "g2", 14, 20))
        => /\ IsWin(preds'[u].picks["g1"], 600)
           /\ IsWin(preds'[u].picks["g2"], 250)
           /\ preds'[u].totalCorrectPicks = 2
           /\ preds'[u].totalWinnerBucksWon = 850
           /\ preds'[u].isSettled]_vars

\* the scenario has happened: the pass has stored the settled submission
\* with both picks of the scenario and both finals of the scenario
C30_Witness ==
    \E u \in Users :
        /\ lastOp = "sync"
        /\ preds[u].picks["g1"].pick = "H" /\ preds[u].picks["g1"].tier = 50
        /\ preds[u].picks["g2"].pick = "A" /\ preds[u].picks["g2"].tier = 25
        /\ FinalIs(week.games, "g1", 24, 10)
        /\ FinalIs(week.games, "g2", 14, 20)
        /\ preds[u].isSettled
        /\ preds[u].totalWinnerBucksWon = 850
        /\ profile[u].winnerBucks = InitialWinnerBucks + 850

\* the store after one whole pass on the answers f, from the store w, prds,
\* prof, board
StoreAfterPass(w, prds, prof, board, f) ==
    LET l1 == MergedLocals(w, f.odds, f.scores)
        w1 == WeekAfterUpdate(w, l1)
        l2 == QueueSettlement(l1, prds)
    IN [week |-> w1,
        preds |-> PredsAfterCommit(prds, l2),
        profile |-> ProfilesAfterCommit(prof, l2),
        leaderboard |-> BoardAfterPhase(board, w1, l2)]

\* C21: after a pass abandoned between its store writes and a next pass that
\* ran to the end on the same provider data, the store (week, submissions,
\* every profile's winnerBucks, leaderboard) is the one a single
\* uninterrupted pass would have left.
C21_AbandonedPassRecovered ==
    (pc[1] = "abandoned" /\ pc[2] = "done") =>
        LET one == StoreAfterPass(SubmittedWeek, SubmittedPreds, SubmittedProfile,
                                  NoBoard, feed)
        IN /\ week = one.week
           /\ preds = one.preds
           /\ profile = one.profile
           /\ leaderboard = one.leaderboard

\* C22: with passes triggered again and again, fetches succeeding again and
\* again and the provider reporting every game of the week as completed,
\* every pick of the submission comes to be win or loss and the submission
\* comes to be settled.
C22_EventuallySettled ==
    <>(\A u \in Users :
          /\ preds[u].isSettled
          /\ \A g \in DOMAIN preds[u].picks : IsTerminal(preds[u].picks[g].outcome))

\* C31: scenario B. A pass over an unsettled submission of which only some
\* games are completed in the merged week resolves the pending picks on the
\* completed games to win or loss, leaves every pick on a game that is not
\* completed as it was, pending with winnings 0, stores isSettled = false
\* and writes no leaderboard.
C31_PartialSettlement ==
    [][\A u \in Users :
        (/\ lastOp' = "sync"
         /\ NeedsSettlement(preds[u])
         /\ \A g \in DOMAIN preds[u].picks : preds[u].picks[g].outcome = "pending"
         /\ \E g \in DOMAIN preds[u].picks : GameDone(week'.games, g)
         /\ \E g \in DOMAIN preds[u].picks : ~GameDone(week'.games, g))
        => /\ \A g \in DOMAIN preds[u].picks :
                IF GameDone(week'.games, g)
                THEN IsTerminal(preds'[u].picks[g].outcome)
                ELSE /\ preds'[u].picks[g].outcome = "pending"
                     /\ preds'[u].picks[g].winnings = 0
           /\ ~preds'[u].isSettled
           /\ leaderboard' = leaderboard]_vars

\* the settlement of user u against the stored week is in the store: the
\* predictions document holds what the loop computes for it, and a settled
\* submission's total has been added to the owner's winnerBucks
SettlementPersisted(u) ==
    /\ NeedsSettlement(preds[u]) =>
          ApplyPredictionUpdate(preds[u], SettleSubmission(preds[u], week.games)) = preds[u]
    /\ preds[u].isSettled =>
          profile[u].winnerBucks = InitialWinnerBucks + preds[u].totalWinnerBucksWon

\* C32: when the work for one user fails in a pass, the settlement results
\* of the other users the pass has processed are persisted.
C32_UserFailureIsolated ==
    pc[1] = "failed" =>
        \A i \in 1..Len(Settlers) :
            (i # loc[1].failed /\ i < loc[1].next) => SettlementPersisted(Settlers[i])

\* C33: at every instant the weekId computed by each page on the browser's
\* clock is the weekId computed by the functions.
C33_ClientWeekIdIsServers ==
    infos # <<>> =>
        /\ infos[2].weekId = infos[1].weekId
        /\ infos[3].weekId = infos[1].weekId

\* C34: a read of another user's predictions document is allowed only to a
\* signed-in requester and only at or after picksRevealTime of the stored
\* week; the owner's read of their own document is always allowed; a create
\* or update is allowed only to the owner.
C34_PredictionsAccess ==
    decision # <<>> =>
        LET isRead == request.method \in {"get", "list"}
            isWrite == request.method \in {"create", "update"}
        IN /\ (isRead /\ request.auth # request.userId /\ decision.allowed) =>
                  /\ request.auth # NoAuth
                  /\ week.exists
                  /\ request.time >= PicksRevealTime
           /\ (isRead /\ request.auth = request.userId) => decision.allowed
           /\ (isWrite /\ decision.allowed) => request.auth = request.userId

\* a signed-in user has been allowed the read of another user's predictions
\* at the instant of picksRevealTime
C34_Witness ==
    /\ decision # <<>>
    /\ request.method = "get"
    /\ request.auth = "u2" /\ request.userId = "u1"
    /\ week.exists
    /\ request.time = PicksRevealTime
    /\ decision.allowed

\* C35: in every stored week every game with completed = true has a score
\* whose home and away are numbers, not null.
C35_CompletedHasScore ==
    week.exists =>
        \A i \in 1..Len(week.games) :
            week.games[i].completed =>
                /\ week.games[i].home \in Nat
                /\ week.games[i].away \in Nat

\* a pass has stored one game as completed next to a game appended without
\* a score
C35_Witness ==
    /\ lastOp = "sync"
    /\ Len(week.games) = 2
    /\ week.games[1].completed
    /\ ~week.games[2].completed
    /\ week.games[2].home = NullNum

\* C36: getNFLOdds on a week that is already stored removes no stored game,
\* resets no completed game to not completed with null scores and does not
\* clear a stored actualTieBreakerTotalPoints.
C36_GetNFLOddsKeepsWeek ==
    [][(lastOp' = "getNFLOdds" /\ week.exists) =>
        /\ SeqIds(week.games) \subseteq SeqIds(week'.games)
        /\ \A i \in 1..Len(week.games) :
              week.games[i].completed => GameDone(week'.games, week.games[i].id)
        /\ (week.actualTieBreakerTotalPoints # NullNum =>
               week'.actualTieBreakerTotalPoints # NullNum)]_vars

\* C37: when a pass stores a submission as settled, what has been added to
\* the owner's winnerBucks for it over all passes equals its
\* totalWinnerBucksWon.
C37_CreditConserved ==
    [][\A u \in Users :
        (lastOp' = "sync" /\ NeedsSettlement(preds[u]) /\ preds'[u].isSettled) =>
            profile'[u].winnerBucks - InitialWinnerBucks = preds'[u].totalWinnerBucksWon]_vars

\* C38: a submission stored with isSettled = true has no pending pick.
C38_SettledHasNoPending ==
    \A u \in Users :
        (preds[u].exists /\ preds[u].isSettled) =>
            \A g \in DOMAIN preds[u].picks : IsTerminal(preds[u].picks[g].outcome)

\* C39: at every instant from bettingWindowStart to bettingWindowEnd of a
\* week W, getCurrentNFLWeekInfo returns the weekId of W.
C39_OpenWeekIsCurrent ==
    infos # <<>> =>
        LET t == At(refs[2].day, 0, refs[2].minute)
        IN (infos[1].bettingWindowStart <= t /\ t <= infos[1].bettingWindowEnd) =>
              infos[2].weekId = infos[1].weekId

\* C40: the game appended by the merge for a new id has the shape of the
\* game getNFLOdds creates from the same event: null scores, completed
\* false, and an odds record whose moneyline field holds the team -> price
\* mapping, empty without an h2h market.
C40_AppendedGameShape ==
    lastOp = "gameBuilt" =>
        LET created == week.games[1]
            appended == loc[1].games[1]
        IN /\ appended.id = created.id
           /\ appended.home = NullNum /\ appended.away = NullNum
           /\ appended.completed = FALSE
           /\ "moneyline" \in DOMAIN appended.odds
           /\ appended.odds.moneyline = created.odds.moneyline

=============================================================================
